---- MODULE Spec2Model ----
(***************************************************************************)
(* ConfigCreator (integration_with_atomer): turns Atomer JSON reports into *)
(* Anaconda configuration directories.  The model keeps a small file       *)
(* system (path -> node), the ConfigCreator object (args, atomer_files),   *)
(* the locals of create_confs and the position of the run.                 *)
(*                                                                         *)
(* Text is a sequence of tokens.  A token is one character, except for a   *)
(* few literals that the program only ever handles as a whole (the regex   *)
(* literal K, "json", "_conf", ...).  A path is a sequence of names, a     *)
(* name is a sequence of tokens.                                           *)
(***************************************************************************)
EXTENDS Naturals, Sequences, FiniteSets, TLC

VARIABLES
    fs,                 \* the file system: path -> [kind, data]
    dirOrder,           \* the order in which os.listdir yields entry names
    diskFull,           \* environment: file writes of copytree fail
    args,               \* the parsed arguments (three paths)
    entry,              \* "main" (the script) or "run" (ConfigCreator.run called directly)
    pc,                 \* position of the program
    atomer_files,       \* self.atomer_files
    idx,                \* position of the for loop of create_confs (1-based)
    result_config_path, \* local of create_confs
    json_content,       \* local of create_confs
    functions,          \* local of create_confs
    stdout,             \* what was printed, oldest first
    error,              \* the exception that ended the program, or "none"
    run_no,             \* how many times the program was started
    fsStart,            \* history: the file system when this start began
    trace,              \* history: file-system operations of this start
    completed           \* history: the reports this start has finished, each
                        \* with its destination and the tree it left there

vars == <<fs, dirOrder, diskFull, args, entry, pc, atomer_files, idx,
          result_config_path, json_content, functions, stdout, error,
          run_no, fsStart, trace, completed>>

---------------------------------------------------------------------------
(* Bounds of the model *)

\* at most this many entries in the directory of reports
MaxFiles == 2
\* at most this many starts of the program over the same directories
MaxRuns == 2
\* a report of the extraction specification has at most this many records
MaxRecords == 2
\* a qualifier of the extraction specification is built from at most this many chunks
MaxChunks == 2

---------------------------------------------------------------------------
(* Text *)

\* the literal text of the regular expression before the opening quote
K == "originated in function: "
\* the single quote
Q == "'"
\* the line feed
NL == "<LF>"

\* code point of the first character of a token (str comparison is by code point)
Code(t) ==
    CASE t = NL -> 10
      [] t = Q -> 39
      [] t = "." -> 46
      [] t = "B" -> 66
      [] t = "a" -> 97
      [] t = "b" -> 98
      [] t = K -> 111
      [] t = "x" -> 120
      [] t = "z" -> 122

\* a < b for Python str
LexLess(a, b) ==
    \E k \in 1..(Len(a) + 1) :
        /\ \A j \in 1..(k - 1) : j <= Len(b) /\ a[j] = b[j]
        /\ \/ k = Len(a) + 1 /\ Len(b) >= k
           \/ k <= Len(a) /\ k <= Len(b) /\ Code(a[k]) < Code(b[k])

RECURSIVE sorted_desc(_)
\* a plausible slip: sorted(..., reverse=True)
sorted_desc(S) ==
    IF S = {} THEN <<>>
    ELSE LET m == CHOOSE x \in S : \A y \in S \ {x} : LexLess(y, x)
         IN  <<m>> \o sorted_desc(S \ {m})

RECURSIVE sorted(_)
\* sorted(functions_to_include): repeatedly take the least element
sorted(S) ==
    IF S = {} THEN <<>>
    ELSE LET m == CHOOSE x \in S : \A y \in S \ {x} : LexLess(x, y)
         IN  <<m>> \o sorted(S \ {m})

---------------------------------------------------------------------------
(* os.path and the file system *)

Dir == [kind |-> "dir", data |-> <<>>]
File(d) == [kind |-> "file", data |-> d]

join(p, name) == Append(p, name)
basename(p) == p[Len(p)]
dirname(p) == SubSeq(p, 1, Len(p) - 1)

\* p is q or an ancestor of q
IsPrefix(p, q) == Len(p) <= Len(q) /\ SubSeq(q, 1, Len(p)) = p

exists(f, p) == p \in DOMAIN f
isdir(f, p) == p \in DOMAIN f /\ f[p].kind = "dir"

Merge(f, g) ==
    [p \in DOMAIN f \cup DOMAIN g |-> IF p \in DOMAIN g THEN g[p] ELSE f[p]]

Restrict(f, S) == [p \in S |-> f[p]]

\* the tree rooted at p, with paths relative to p
Subtree(f, p) ==
    LET under == {q \in DOMAIN f : IsPrefix(p, q)}
    IN  [r \in {SubSeq(q, Len(p) + 1, Len(q)) : q \in under} |-> f[p \o r]]

\* the entry names of directory p, in listing order
RECURSIVE FilterSeq(_, _)
FilterSeq(s, S) ==
    IF s = <<>> THEN <<>>
    ELSE IF Head(s) \in S THEN <<Head(s)>> \o FilterSeq(Tail(s), S)
    ELSE FilterSeq(Tail(s), S)

listdir(f, p) ==
    FilterSeq(dirOrder, {q[Len(q)] : q \in {r \in DOMAIN f : Len(r) = Len(p) + 1 /\ IsPrefix(p, r)}})

\* str.endswith('.json')
endswith_json(name) ==
    Len(name) >= 2 /\ name[Len(name) - 1] = "." /\ name[Len(name)] = "json"

\* os.path.splitext(name)[0]: the extension starts at the last dot, unless only
\* dots precede that dot (a leading dot starts no extension)
splitext_root(name) ==
    LET dots == {i \in 1..Len(name) : name[i] = "."}
        dotIndex == IF dots = {} THEN 0 ELSE CHOOSE i \in dots : \A j \in dots : j <= i
    IN  IF dotIndex > 0 /\ \E i \in 1..(dotIndex - 1) : name[i] # "."
        THEN SubSeq(name, 1, dotIndex - 1)
        ELSE name

\* a plausible slip: only p and the entries directly in it are removed
rmtree_one_level(f, p) ==
    Restrict(f, {q \in DOMAIN f : ~(IsPrefix(p, q) /\ Len(q) <= Len(p) + 1)})

\* shutil.rmtree(p)
rmtree(f, p) == Restrict(f, {q \in DOMAIN f : ~IsPrefix(p, q)})

\* os.makedirs(p, exist_ok=True)
makedirs(f, p) ==
    Merge([q \in {SubSeq(p, 1, n) : n \in 1..Len(p)} |-> Dir], f)

\* shutil.copytree(src, dst) that went through; with_files = FALSE is the tree a
\* copy leaves behind when every file copy failed (directories only)
copytree(f, src, dst, with_files) ==
    LET rels == {SubSeq(q, Len(src) + 1, Len(q)) :
                    q \in {r \in DOMAIN f : IsPrefix(src, r)
                                             /\ (with_files \/ f[r].kind = "dir")}}
    IN  Merge(makedirs(f, dst), [p \in {dst \o r : r \in rels} |-> f[src \o SubSeq(p, Len(dst) + 1, Len(p))]])

---------------------------------------------------------------------------
(* JSON reports *)

\* a record of a report: a mapping that may or may not hold "qualifier"
Rec(q) == [has |-> TRUE, qualifier |-> q]
NoQualifier == [has |-> FALSE, qualifier |-> <<>>]

\* what read_json_from_file returns: None, or the decoded value
None == [none |-> TRUE, value |-> <<>>]
Some(v) == [none |-> FALSE, value |-> v]

\* the bytes of three report files
DocBad == <<"[{">>
DocD1 == <<"D1">>
DocD2 == <<"D2">>
Docs == {DocBad, DocD1, DocD2}

\* json.load: the decoded value of the text that decodes, ok = FALSE for
\* JSONDecodeError
json_load(data) ==
    CASE data = DocD1 ->
            [ok |-> TRUE,
             value |-> << Rec(<<"x", K, Q, "b", Q>>),
                          Rec(<<K, Q, "a", Q>>),
                          Rec(<<"x">>) >>]
      [] data = DocD2 ->
            [ok |-> TRUE,
             value |-> << Rec(<<K, Q, "a", Q, K, Q, "b", Q>>),
                          NoQualifier,
                          Rec(<<K, Q, "a", Q>>),
                          Rec(<<K, Q, "B", Q>>),
                          Rec(<<"x", K, Q, Q>>) >>]
      [] OTHER -> [ok |-> FALSE, value |-> <<>>]

\* read_json_from_file(filename): the result and the line it prints, if any
read_json_from_file(f, filename) ==
    IF ~exists(f, filename)
    THEN [result |-> None, printed |-> <<[kind |-> "file_not_found", path |-> filename]>>]
    ELSE IF f[filename].kind = "dir"
    THEN [result |-> None, printed |-> <<[kind |-> "unexpected_error", path |-> filename]>>]
    ELSE IF ~json_load(f[filename].data).ok
    THEN [result |-> None, printed |-> <<[kind |-> "decode_error", path |-> filename]>>]
    ELSE [result |-> Some(json_load(f[filename].data).value), printed |-> <<>>]

---------------------------------------------------------------------------
(* The regular expression  originated in function: '([^']+)'  *)

NoMatch == [found |-> FALSE, name |-> <<>>]

RECURSIVE RunEnd(_, _)
\* the greedy [^']+ from position j: the last position of the run of
\* non-quote tokens that starts at j (j - 1 when the run is empty)
RunEnd(q, j) ==
    IF j <= Len(q) /\ q[j] # Q THEN RunEnd(q, j + 1) ELSE j - 1

\* the match that starts at position i, if there is one
MatchAt(q, i) ==
    IF i + 1 <= Len(q) /\ q[i] = K /\ q[i + 1] = Q
    THEN LET e == RunEnd(q, i + 2)
         IN  IF e >= i + 2 /\ e + 1 <= Len(q)
             THEN [found |-> TRUE, name |-> SubSeq(q, i + 2, e), stop |-> e + 1]
             ELSE [found |-> FALSE, name |-> <<>>, stop |-> 0]
    ELSE [found |-> FALSE, name |-> <<>>, stop |-> 0]

RECURSIVE ScanFrom(_, _)
ScanFrom(q, i) ==
    IF i > Len(q) THEN NoMatch
    ELSE IF MatchAt(q, i).found
    THEN [found |-> TRUE, name |-> MatchAt(q, i).name]
    ELSE ScanFrom(q, i + 1)

RECURSIVE ScanBack(_, _)
ScanBack(q, i) ==
    IF i < 1 THEN NoMatch
    ELSE IF MatchAt(q, i).found
    THEN [found |-> TRUE, name |-> MatchAt(q, i).name]
    ELSE ScanBack(q, i - 1)

\* a plausible slip: the last match of the qualifier instead of the first
re_search_last(q) == ScanBack(q, Len(q))

\* re.search(pattern, qualifier): the leftmost match; group(1) is name
re_search(q) == ScanFrom(q, 1)

RECURSIVE ExtractLoop(_, _)
ExtractLoop(entries, acc) ==
    IF entries = <<>> THEN acc
    ELSE LET qualifier == IF Head(entries).has THEN Head(entries).qualifier ELSE <<>>
             match == re_search(qualifier)
         IN  ExtractLoop(Tail(entries),
                         IF match.found THEN acc \cup {match.name} ELSE acc)

\* extract_functions_to_analyze(json_content), json_content a list of records
extract_functions_to_analyze(entries) == ExtractLoop(entries, {})

---------------------------------------------------------------------------
(* The include writer and the template materializer *)

IncludeRel == << <<"filters">>, <<"functions">>, <<"include">> >>

RECURSIVE Lines(_)
\* the text written for a sorted list of names: each name and a line feed
Lines(names) ==
    IF names = <<>> THEN <<>> ELSE Head(names) \o <<NL>> \o Lines(Tail(names))

\* update_functions_include(functions_to_include, path_to_config)
update_functions_include(f, functions_to_include, path_to_config) ==
    LET include_path == path_to_config \o IncludeRel
        g == makedirs(f, dirname(include_path))
        old == IF exists(g, include_path) THEN g[include_path].data ELSE <<>>
    IN  Merge(g, [p \in {include_path} |->
                    File(old \o Lines(sorted(functions_to_include)))])

\* the destination of a report: <result_config_dir>/<filename>_conf
conf_name(filepath) == splitext_root(basename(filepath)) \o <<"_conf">>
dst_of(filepath) == join(args.result_config_dir, conf_name(filepath))

\* a plausible slip: the stale destination is kept and the copy merged into it
remove_stale_keep(f, dst) == f

\* create_base_result_config, first half: remove a destination that exists
remove_stale(f, dst) == IF exists(f, dst) THEN rmtree(f, dst) ELSE f

---------------------------------------------------------------------------
(* The directories and files of the model *)

AtomerDir == << <<"in">> >>
BaseDir == << <<"base">> >>
ResultDir == << <<"out">> >>
\* a template that lives where the report a.json gets its configuration
AliasedBaseDir == << <<"out">>, <<"a", "_conf">> >>

F_a == <<"a", ".", "json">>
F_dot == <<".", "json">>
F_dotdot == <<".", "json", ".", "json">>
F_notes == <<"notes", ".", "txt">>
FileNames == {F_a, F_dot, F_dotdot, F_notes}

EmptyFs == [p \in {} |-> Dir]

TemplateKinds == {"plain", "withInclude"}
TemplateInclude == <<"z", NL>>

\* a base template at path base: one settings file and, for "withInclude", a
\* filters/functions/include file of one line
TemplateFs(base, kind) ==
    LET plain == Merge(makedirs(EmptyFs, base),
                       [p \in {join(base, <<"settings">>)} |-> File(<<"x">>)])
    IN  IF kind = "plain" THEN plain
        ELSE Merge(makedirs(plain, dirname(base \o IncludeRel)),
                   [p \in {base \o IncludeRel} |-> File(TemplateInclude)])

\* the directory of reports: a directory with the given files, a regular file,
\* or nothing
AtomerFs(kind, content) ==
    CASE kind = "dir" ->
            Merge(makedirs(EmptyFs, AtomerDir),
                  [p \in {join(AtomerDir, n) : n \in DOMAIN content} |->
                      File(content[p[Len(p)]])])
      [] kind = "file" -> [p \in {AtomerDir} |-> File(<<"x">>)]
      [] kind = "missing" -> EmptyFs

Perms(S) ==
    {s \in [1..Cardinality(S) -> S] : \A i, j \in 1..Cardinality(S) : i # j => s[i] # s[j]}

Layouts == {"separate", "noBase", "baseInResult"}

---------------------------------------------------------------------------
(* The program *)

Terminal == pc \in {"done", "failed"}

Init ==
    \E e \in {"main", "run"}, atomerKind \in {"dir", "missing", "file"},
       layout \in Layouts, tk \in TemplateKinds, outExists \in BOOLEAN,
       entries \in SUBSET FileNames :
        /\ Cardinality(entries) <= MaxFiles
        /\ atomerKind # "dir" => entries = {}
        /\ layout = "noBase" => tk = "plain"
        /\ (e = "run" \/ layout = "baseInResult") => outExists
        /\ \E content \in [entries -> Docs], order \in Perms(entries) :
            /\ F_notes \in entries => content[F_notes] = DocBad
            /\ dirOrder = order
            /\ fs = Merge(Merge(AtomerFs(atomerKind, content),
                                IF outExists THEN makedirs(EmptyFs, ResultDir) ELSE EmptyFs),
                          CASE layout = "separate" -> TemplateFs(BaseDir, tk)
                            [] layout = "noBase" -> EmptyFs
                            [] layout = "baseInResult" -> TemplateFs(AliasedBaseDir, tk))
        /\ args = [atomer_outputs_dir |-> AtomerDir,
                   base_config_dir |-> IF layout = "baseInResult" THEN AliasedBaseDir ELSE BaseDir,
                   result_config_dir |-> ResultDir]
        /\ entry = e
        /\ pc = e
    /\ diskFull = FALSE
    /\ atomer_files = <<>>
    /\ idx = 0
    /\ result_config_path = <<>>
    /\ json_content = None
    /\ functions = {}
    /\ stdout = <<>>
    /\ error = "none"
    /\ run_no = 1
    /\ fsStart = fs
    /\ trace = <<>>
    /\ completed = <<>>

\* main, lines 6-8: the arguments are parsed and the result directory is made
\* sure to exist
EnsureResultConfigDirExists ==
    /\ pc = "main"
    /\ fs' = makedirs(fs, args.result_config_dir)
    /\ pc' = "main_call"
    /\ UNCHANGED completed
    /\ UNCHANGED <<dirOrder, diskFull, args, entry, atomer_files, idx,
                   result_config_path, json_content, functions, stdout, error,
                   run_no, fsStart, trace>>

\* main, line 11: ConfigCreator(args).Run(); the class defines run, not Run,
\* so the attribute lookup raises
MainCallRun ==
    /\ pc = "main_call"
    /\ atomer_files' = <<>>
    /\ error' = "AttributeError"
    /\ pc' = "failed"
    /\ UNCHANGED completed
    /\ UNCHANGED <<fs, dirOrder, diskFull, args, entry, idx, result_config_path,
                   json_content, functions, stdout, run_no, fsStart, trace>>

\* a plausible slip: the directory check left out
atomer_dir_unchecked(f, atomer_dir) == TRUE

\* get_atomer_output_files, line 118
atomer_dir_ok(f, atomer_dir) == isdir(f, atomer_dir)

RECURSIVE JsonPaths(_, _)
\* the list comprehension of get_atomer_output_files
JsonPaths(atomer_dir, names) ==
    IF names = <<>> THEN <<>>
    ELSE IF endswith_json(Head(names))
    THEN <<join(atomer_dir, Head(names))>> \o JsonPaths(atomer_dir, Tail(names))
    ELSE JsonPaths(atomer_dir, Tail(names))

\* run, line 13: get_atomer_output_files
GetAtomerOutputFiles ==
    /\ pc = "run"
    /\ IF ~atomer_dir_ok(fs, args.atomer_outputs_dir)
       THEN /\ error' = "ValueError"
            /\ pc' = "failed"
            /\ UNCHANGED <<atomer_files, idx>>
       ELSE /\ atomer_files' = JsonPaths(args.atomer_outputs_dir,
                                         listdir(fs, args.atomer_outputs_dir))
            /\ idx' = 1
            /\ pc' = "create_confs"
            /\ UNCHANGED error
    /\ UNCHANGED completed
    /\ UNCHANGED <<fs, dirOrder, diskFull, args, entry, result_config_path,
                   json_content, functions, stdout, run_no, fsStart, trace>>

\* create_confs, lines 25-30: the next report; create_base_result_config
CreateBaseResultConfig ==
    /\ pc = "create_confs"
    /\ idx <= Len(atomer_files)
    /\ LET src == args.base_config_dir
           dst == dst_of(atomer_files[idx])
           cleared == remove_stale(fs, dst)
           removed == IF exists(fs, dst) /\ ~exists(cleared, dst)
                      THEN <<[op |-> "rmtree", path |-> dst, onto |-> FALSE]>>
                      ELSE <<>>
           copied == <<[op |-> "copytree", path |-> dst, onto |-> exists(cleared, dst)]>>
       IN  IF ~isdir(cleared, src)
           THEN \* copytree raises before it creates anything
                /\ fs' = cleared
                /\ trace' = trace \o removed
                /\ error' = "FileNotFoundError"
                /\ pc' = "failed"
                /\ UNCHANGED <<diskFull, result_config_path>>
           ELSE \E fault \in BOOLEAN :
                IF fault \/ diskFull
                THEN \* the copy of every file fails; copytree raises at its end
                     /\ fs' = copytree(cleared, src, dst, FALSE)
                     /\ trace' = trace \o removed \o copied
                     /\ diskFull' = TRUE
                     /\ error' = "shutil.Error"
                     /\ pc' = "failed"
                     /\ UNCHANGED result_config_path
                ELSE /\ fs' = copytree(cleared, src, dst, TRUE)
                     /\ trace' = trace \o removed \o copied
                     /\ result_config_path' = dst
                     /\ pc' = "read_json"
                     /\ UNCHANGED <<diskFull, error>>
    /\ UNCHANGED completed
    /\ UNCHANGED <<dirOrder, args, entry, atomer_files, idx, json_content,
                   functions, stdout, run_no, fsStart>>

\* create_confs, line 33: read_json_from_file
ReadJsonFromFile ==
    /\ pc = "read_json"
    /\ json_content' = read_json_from_file(fs, atomer_files[idx]).result
    /\ stdout' = stdout \o read_json_from_file(fs, atomer_files[idx]).printed
    /\ pc' = "extract"
    /\ UNCHANGED completed
    /\ UNCHANGED <<fs, dirOrder, diskFull, args, entry, atomer_files, idx,
                   result_config_path, functions, error, run_no, fsStart, trace>>

\* create_confs, line 36: extract_functions_to_analyze; iterating None raises
ExtractFunctionsToAnalyze ==
    /\ pc = "extract"
    /\ IF json_content.none
       THEN /\ error' = "TypeError"
            /\ pc' = "failed"
            /\ UNCHANGED functions
       ELSE /\ functions' = extract_functions_to_analyze(json_content.value)
            /\ pc' = "update"
            /\ UNCHANGED error
    /\ UNCHANGED completed
    /\ UNCHANGED <<fs, dirOrder, diskFull, args, entry, atomer_files, idx,
                   result_config_path, json_content, stdout, run_no, fsStart, trace>>

\* create_confs, line 39: update_functions_include; the loop moves on
UpdateFunctionsInclude ==
    /\ pc = "update"
    /\ fs' = update_functions_include(fs, functions, result_config_path)
    /\ trace' = Append(trace, [op |-> "append", path |-> result_config_path, onto |-> FALSE])
    /\ completed' = Append(completed,
                            [report |-> atomer_files[idx],
                             path |-> result_config_path,
                             tree |-> Subtree(fs', result_config_path)])
    /\ idx' = idx + 1
    /\ pc' = "create_confs"
    /\ UNCHANGED <<dirOrder, diskFull, args, entry, atomer_files,
                   result_config_path, json_content, functions, stdout, error,
                   run_no, fsStart>>

\* run, line 15: the summary, once the loop is over
PrintSummary ==
    /\ pc = "create_confs"
    /\ idx > Len(atomer_files)
    /\ stdout' = Append(stdout, [kind |-> "summary", path |-> args.result_config_dir])
    /\ pc' = "done"
    /\ UNCHANGED completed
    /\ UNCHANGED <<fs, dirOrder, diskFull, args, entry, atomer_files, idx,
                   result_config_path, json_content, functions, error, run_no,
                   fsStart, trace>>

StaleName == <<"stale">>

\* the configuration directories under the result directory
ConfDirs(f) ==
    {p \in DOMAIN f : /\ Len(p) = Len(args.result_config_dir) + 1
                      /\ IsPrefix(args.result_config_dir, p)
                      /\ f[p].kind = "dir"
                      /\ p # args.base_config_dir}

\* environment, between two starts: somebody leaves a file in a configuration
\* directory
AddStaleFile ==
    /\ Terminal
    /\ entry = "run"
    /\ run_no < MaxRuns
    /\ \A d \in ConfDirs(fs) : ~exists(fs, join(d, StaleName))
    /\ \E d \in ConfDirs(fs) :
        fs' = Merge(fs, [p \in {join(d, StaleName)} |-> File(<<"x">>)])
    /\ UNCHANGED completed
    /\ UNCHANGED <<dirOrder, diskFull, args, entry, pc, atomer_files, idx,
                   result_config_path, json_content, functions, stdout, error,
                   run_no, fsStart, trace>>

\* the program is started again with the same arguments
Restart ==
    /\ Terminal
    /\ entry = "run"
    /\ run_no < MaxRuns
    /\ run_no' = run_no + 1
    /\ pc' = "run"
    /\ atomer_files' = <<>>
    /\ idx' = 0
    /\ result_config_path' = <<>>
    /\ json_content' = None
    /\ functions' = {}
    /\ stdout' = <<>>
    /\ error' = "none"
    /\ fsStart' = fs
    /\ trace' = <<>>
    /\ completed' = <<>>
    /\ UNCHANGED <<fs, dirOrder, diskFull, args, entry>>

Next ==
    \/ EnsureResultConfigDirExists
    \/ MainCallRun
    \/ GetAtomerOutputFiles
    \/ CreateBaseResultConfig
    \/ ReadJsonFromFile
    \/ ExtractFunctionsToAnalyze
    \/ UpdateFunctionsInclude
    \/ PrintSummary
    \/ AddStaleFile
    \/ Restart

Spec == Init /\ [][Next]_vars

---------------------------------------------------------------------------
(* The extractor on its own: extract_functions_to_analyze applied to every *)
(* report of up to MaxRecords records whose qualifiers are built from up   *)
(* to MaxChunks chunks of text.                                            *)

Chunks == { <<"a">>, <<Q>>, <<K, Q, "a", Q>>, <<K, Q, "b", Q>> }

RECURSIVE Concat(_)
Concat(ss) == IF ss = <<>> THEN <<>> ELSE Head(ss) \o Concat(Tail(ss))

Qualifiers == UNION {{Concat(cs) : cs \in [1..n -> Chunks]} : n \in 0..MaxChunks}

Records == {Rec(q) : q \in Qualifiers} \cup {NoQualifier}

Reports == UNION {[1..n -> Records] : n \in 0..MaxRecords}

InitExtract ==
    /\ json_content \in {Some(r) : r \in Reports}
    /\ pc = "extract_call"
    /\ fs = EmptyFs
    /\ dirOrder = <<>>
    /\ diskFull = FALSE
    /\ args = [atomer_outputs_dir |-> AtomerDir, base_config_dir |-> BaseDir,
               result_config_dir |-> ResultDir]
    /\ entry = "extract"
    /\ atomer_files = <<>>
    /\ idx = 0
    /\ result_config_path = <<>>
    /\ functions = {}
    /\ stdout = <<>>
    /\ error = "none"
    /\ run_no = 1
    /\ fsStart = EmptyFs
    /\ trace = <<>>
    /\ completed = <<>>

\* extract_functions_to_analyze called on the decoded report
ExtractCall ==
    /\ pc = "extract_call"
    /\ functions' = extract_functions_to_analyze(json_content.value)
    /\ pc' = "extract_return"
    /\ UNCHANGED completed
    /\ UNCHANGED <<fs, dirOrder, diskFull, args, entry, atomer_files, idx,
                   result_config_path, json_content, stdout, error, run_no,
                   fsStart, trace>>

NextExtract == ExtractCall

SpecExtract == InitExtract /\ [][NextExtract]_vars

---------------------------------------------------------------------------
(* Helpers of the properties *)

Range(s) == {s[i] : i \in 1..Len(s)}

\* the include file of the configuration directory d, as text
IncludeData(f, d) == f[d \o IncludeRel].data

\* the include text the base template brought along when this start began
TemplateIncludeData ==
    IF exists(fsStart, args.base_config_dir \o IncludeRel)
    THEN fsStart[args.base_config_dir \o IncludeRel].data
    ELSE <<>>

\* report k of the list has had its destination removed and copied in this start
Touched(k) ==
    /\ k <= Len(atomer_files)
    /\ \/ k < idx
       \/ k = idx /\ pc \in {"read_json", "extract", "update", "failed"}

\* report j is finished and no later report has touched its destination since
LastFinished(j) ==
    /\ j < idx
    /\ \A k \in (j + 1)..Len(atomer_files) :
          Touched(k) => dst_of(atomer_files[k]) # dst_of(atomer_files[j])

\* the names the extractor returns for the report file at path
NamesOf(path) ==
    extract_functions_to_analyze(json_load(fsStart[path].data).value)

Summaries == {i \in 1..Len(stdout) : stdout[i].kind = "summary"}

---------------------------------------------------------------------------
(* C1: a report file that is malformed JSON is logged as a decode error,   *)
(* still gets its configuration directory with an include file that holds  *)
(* no function line, raises nothing, and the next report is processed.     *)
(* Stated for every decode error printed: once the extractor has been      *)
(* called on that report, no exception has ended the program and the       *)
(* report's include file exists with nothing appended to the template's.   *)
C1_MalformedReportIsSkipped ==
    \A m \in Range(stdout) :
        m.kind = "decode_error" /\ pc # "extract" =>
            /\ error = "none"
            /\ exists(fs, dst_of(m.path) \o IncludeRel)

(* C2: when atomer_outputs_dir is missing or no directory, run fails at    *)
(* discovery with the configuration error before any report is processed:  *)
(* the file system is as it was, nothing was printed.                      *)
C2_BadInputDirFailsFirst ==
    (entry = "run" /\ pc # "run" /\ ~isdir(fsStart, args.atomer_outputs_dir)) =>
        /\ pc = "failed"
        /\ error = "ValueError"
        /\ fs = fsStart
        /\ trace = <<>>
        /\ stdout = <<>>
        /\ atomer_files = <<>>

C2_Witness ==
    /\ entry = "run"
    /\ pc = "failed"
    /\ error = "ValueError"
    /\ exists(fs, args.atomer_outputs_dir)
    /\ fs[args.atomer_outputs_dir].kind = "file"
    /\ isdir(fs, args.base_config_dir)

RECURSIVE SplitLinesFrom(_, _)
SplitLinesFrom(text, cur) ==
    IF text = <<>> THEN (IF cur = <<>> THEN <<>> ELSE <<cur>>)
    ELSE IF Head(text) = NL THEN <<cur>> \o SplitLinesFrom(Tail(text), <<>>)
    ELSE SplitLinesFrom(Tail(text), Append(cur, Head(text)))

\* the lines of a text file
SplitLines(text) == SplitLinesFrom(text, <<>>)

\* s lists the set S in strictly ascending code-point order
IsAscendingListOf(s, S) ==
    /\ Len(s) = Cardinality(S)
    /\ Range(s) = S
    /\ \A i, j \in 1..Len(s) : i < j => LexLess(s[i], s[j])

\* the first start, and the destination of report j did not exist before it
FreshFirstRun(j) ==
    /\ entry = "run"
    /\ run_no = 1
    /\ ~exists(fsStart, dst_of(atomer_files[j]))

(* C3 as stated: after one run on a fresh destination the lines of every   *)
(* processed report's include file are exactly the ascending,              *)
(* case-sensitive sorted names extracted from that report: no duplicate,   *)
(* no blank line, nothing else, whatever the base template holds.          *)
C3_IncludeLinesAreSortedNames ==
    \A j \in 1..Len(atomer_files) :
        (FreshFirstRun(j) /\ LastFinished(j)) =>
            /\ exists(fs, dst_of(atomer_files[j]) \o IncludeRel)
            /\ IsAscendingListOf(SplitLines(IncludeData(fs, dst_of(atomer_files[j]))),
                                 NamesOf(atomer_files[j]))
            /\ \A l \in Range(SplitLines(IncludeData(fs, dst_of(atomer_files[j])))) :
                  l # <<>>

(* C3 as amended: after one run on a fresh destination the include file of *)
(* every configuration directory whose last report was finished is the     *)
(* include text of the base template (nothing if it has none) followed by  *)
(* the names extracted from that report, each once, in ascending           *)
(* code-point order, each followed by a line feed.                         *)
C3_IncludeIsTemplateThenSortedNames ==
    \A j \in 1..Len(atomer_files) :
        (FreshFirstRun(j) /\ LastFinished(j)) =>
            /\ exists(fs, dst_of(atomer_files[j]) \o IncludeRel)
            /\ \E s \in Perms(NamesOf(atomer_files[j])) :
                  /\ IsAscendingListOf(s, NamesOf(atomer_files[j]))
                  /\ IncludeData(fs, dst_of(atomer_files[j]))
                        = TemplateIncludeData \o Lines(s)

\* a finished first run whose template has an include file, over a report with
\* an upper-case and a lower-case name
C3_Witness ==
    /\ entry = "run"
    /\ run_no = 1
    /\ pc = "done"
    /\ TemplateIncludeData # <<>>
    /\ \E j \in 1..Len(atomer_files) :
          /\ FreshFirstRun(j)
          /\ LastFinished(j)
          /\ {<<"B">>, <<"a">>} \subseteq NamesOf(atomer_files[j])
          /\ Len(IncludeData(fs, dst_of(atomer_files[j]))) > Len(TemplateIncludeData)

(* C5: once create_base_result_config has returned, the destination is a   *)
(* tree identical to the base template, whatever the destination held      *)
(* before (an earlier materialization, files added since): nothing of the  *)
(* previous contents survives.                                             *)
C5_RematerializedIsFreshCopy ==
    pc = "read_json" =>
        Subtree(fs, result_config_path) = Subtree(fs, args.base_config_dir)

\* a destination materialized by the previous start, with its include file
\* and a file added since, has just been materialized again
C5_Witness ==
    /\ pc = "read_json"
    /\ run_no > 1
    /\ exists(fsStart, join(result_config_path, StaleName))
    /\ exists(fsStart, result_config_path \o IncludeRel)
    /\ \E k \in 1..Len(trace) : trace[k].op = "rmtree" /\ trace[k].path = result_config_path

(* C8: in every start and for every report the steps come in the order     *)
(* delete the stale destination, copy the template, append to the include  *)
(* file: every append directly follows a copy to the same destination that *)
(* found no destination there.  So in every start, first or repeated, the  *)
(* include file a report leaves is the template's include text followed by *)
(* its own sorted names, and when a repeated start over the same inputs    *)
(* ends (no copy failed) every include file reads as it did after the      *)
(* start before: names never pile up.                                      *)
C8_DeleteCopyAppendOrder ==
    /\ \A k \in 1..Len(trace) :
          trace[k].op = "append" =>
              /\ k >= 2
              /\ trace[k - 1].op = "copytree"
              /\ trace[k - 1].path = trace[k].path
              /\ ~trace[k - 1].onto
              /\ exists(fsStart, trace[k].path) =>
                    \E i \in 1..(k - 1) : trace[i].op = "rmtree" /\ trace[i].path = trace[k].path
    /\ (pc = "create_confs" /\ idx > 1) =>
          IncludeData(fs, result_config_path)
              = TemplateIncludeData \o Lines(sorted(functions))
    /\ (Terminal /\ run_no > 1 /\ error \in {"none", "TypeError"}) =>
          \A d \in ConfDirs(fs) \cup ConfDirs(fsStart) :
              /\ exists(fs, d \o IncludeRel) <=> exists(fsStart, d \o IncludeRel)
              /\ exists(fs, d \o IncludeRel) =>
                    IncludeData(fs, d) = IncludeData(fsStart, d)

\* a repeated start has appended to the include file of a destination that the
\* previous start had left with a non-empty include file
C8_Witness ==
    /\ run_no > 1
    /\ pc = "create_confs"
    /\ idx > 1
    /\ functions # {}
    /\ exists(fsStart, result_config_path \o IncludeRel)
    /\ Len(IncludeData(fsStart, result_config_path)) > Len(TemplateIncludeData)
    /\ trace[Len(trace)].op = "append"

---------------------------------------------------------------------------
(* The pattern, stated on its own *)

QualifierOf(r) == IF r.has THEN r.qualifier ELSE <<>>

\* the pattern matches q from position i to position e + 1, capturing q[i+2..e]
Occurs(q, i, e) ==
    /\ 1 <= i
    /\ i + 2 <= e
    /\ e + 1 <= Len(q)
    /\ q[i] = K
    /\ q[i + 1] = Q
    /\ \A k \in (i + 2)..e : q[k] # Q
    /\ q[e + 1] = Q

OccursAt(q, i) == \E e \in 1..Len(q) : Occurs(q, i, e)

\* the name captured by the leftmost occurrence, as a set (empty: no occurrence)
FirstCaptured(q) ==
    LET starts == {i \in 1..Len(q) : OccursAt(q, i)}
    IN  IF starts = {} THEN {}
        ELSE LET i == CHOOSE x \in starts : \A y \in starts : x <= y
                 e == CHOOSE x \in 1..Len(q) : Occurs(q, i, x)
             IN  {SubSeq(q, i + 2, e)}

RECURSIVE AllCapturedFrom(_, _)
\* the names captured by every occurrence, left to right without overlap, from
\* position from on
AllCapturedFrom(q, from) ==
    LET starts == {i \in from..Len(q) : OccursAt(q, i)}
    IN  IF starts = {} THEN {}
        ELSE LET i == CHOOSE x \in starts : \A y \in starts : x <= y
                 e == CHOOSE x \in 1..Len(q) : Occurs(q, i, x)
             IN  {SubSeq(q, i + 2, e)} \cup AllCapturedFrom(q, e + 2)

AllCaptured(q) == AllCapturedFrom(q, 1)

(* C4 as stated: for every well-formed report the extractor returns the    *)
(* set of all names the pattern captures in the qualifiers of all records, *)
(* every occurrence in every record, a missing qualifier counting as the   *)
(* empty string.                                                           *)
C4_ExtractsEveryOccurrence ==
    pc = "extract_return" =>
        functions = UNION {AllCaptured(QualifierOf(json_content.value[k])) :
                              k \in 1..Len(json_content.value)}

(* C4 as amended: for every well-formed report the extractor returns the   *)
(* set of the names captured by the first (leftmost) occurrence of the     *)
(* pattern in each record's qualifier, a missing qualifier counting as the *)
(* empty string, duplicates collapsed; a record without an occurrence      *)
(* contributes nothing.                                                    *)
C4_ExtractsFirstOccurrencePerRecord ==
    pc = "extract_return" =>
        functions = UNION {FirstCaptured(QualifierOf(json_content.value[k])) :
                              k \in 1..Len(json_content.value)}

\* a report of two records: one with two occurrences of different names, one
\* whose first occurrence repeats the first record's
C4_Witness ==
    /\ pc = "extract_return"
    /\ Len(json_content.value) = 2
    /\ Cardinality(AllCaptured(QualifierOf(json_content.value[1]))) = 2
    /\ FirstCaptured(QualifierOf(json_content.value[2]))
          = FirstCaptured(QualifierOf(json_content.value[1]))
    /\ Cardinality(functions) = 1

---------------------------------------------------------------------------
(* C6: reports are independent.  Different report files have different     *)
(* destinations, and the tree a finished report left at its destination is *)
(* still there, untouched, while and after the later reports of the same   *)
(* start are processed.                                                    *)
C6_ReportsAreIndependent ==
    /\ \A i, j \in 1..Len(atomer_files) :
          i # j => dst_of(atomer_files[i]) # dst_of(atomer_files[j])
    /\ pc = "done" =>
          /\ Len(completed) = Len(atomer_files)
          /\ \A c \in Range(completed) :
                exists(fs, c.path) /\ Subtree(fs, c.path) = c.tree

(* C7: when the template copy fails for a report, the error ends the       *)
(* start: no later report is processed, no summary is printed, and the     *)
(* configuration directories finished for earlier reports of this start    *)
(* are on disk as they were left.                                          *)
C7_CopyFailureKeepsEarlierConfigs ==
    (pc = "failed" /\ error \in {"FileNotFoundError", "shutil.Error"}) =>
        /\ Summaries = {}
        /\ Len(completed) = idx - 1
        /\ \A c \in Range(completed) :
              exists(fs, c.path) /\ Subtree(fs, c.path) = c.tree

\* the arguments main is meant for: both directories exist, apart from each
\* other, and every report decodes
ValidArguments ==
    /\ isdir(fsStart, args.atomer_outputs_dir)
    /\ isdir(fsStart, args.base_config_dir)
    /\ args.base_config_dir = BaseDir
    /\ \A n \in Range(listdir(fsStart, args.atomer_outputs_dir)) :
          endswith_json(n) => json_load(fsStart[join(args.atomer_outputs_dir, n)].data).ok

(* C9: main, called with valid arguments (an input directory of            *)
(* well-formed reports, a base template), ends with every discovered       *)
(* report processed and exactly one summary line, which names the result   *)
(* directory and comes last.                                               *)
C9_MainRunsThePipeline ==
    (entry = "main" /\ ValidArguments /\ Terminal) =>
        /\ pc = "done"
        /\ Cardinality(Summaries) = 1
        /\ stdout[Len(stdout)] = [kind |-> "summary", path |-> args.result_config_dir]
        /\ idx = Len(atomer_files) + 1

\* the paths that differ from what they were when this start began
ChangedPaths ==
    {p \in DOMAIN fs \cup DOMAIN fsStart :
        ~(p \in DOMAIN fs /\ p \in DOMAIN fsStart /\ fs[p] = fsStart[p])}

(* C10: a run never modifies its inputs, whatever the three directories    *)
(* are: the base template tree and the directory of reports are as they    *)
(* were when the run began, and every path that was removed, created or    *)
(* rewritten lies in a <result_config_dir>/<basename>_conf directory.      *)
C10_InputsAreNeverModified ==
    entry = "run" =>
        /\ Subtree(fs, args.base_config_dir) = Subtree(fsStart, args.base_config_dir)
        /\ Subtree(fs, args.atomer_outputs_dir) = Subtree(fsStart, args.atomer_outputs_dir)
        /\ \A p \in ChangedPaths :
              /\ Len(p) > Len(args.result_config_dir)
              /\ IsPrefix(args.result_config_dir, p)

====
